---- MODULE Spec2Model ----
(***************************************************************************)
(* Model of src/extractor.py (imagefv extractor): the magic-byte           *)
(* classifier, the two gzip decoders, the gzip stream locator, the         *)
(* multi-archive splitter, the section content router, the section tree    *)
(* walker, extract_from_elf and main.                                      *)
(*                                                                         *)
(* Bytes are naturals 0..255 and buffers are sequences of bytes.  Text     *)
(* (labels, directory names) is a sequence of code points.                 *)
(*                                                                         *)
(* gzip.GzipFile is the standard library's; it is modelled on a reduced    *)
(* member layout that keeps every outcome the real decoder has:            *)
(*     1F 8B | CM | LEN | LEN payload bytes | CK                           *)
(* CM must be 8 (else BadGzipFile "Unknown compression method"), LEN is a  *)
(* stored-block length and a LEN above 15 stands for an invalid deflate    *)
(* block (zlib.error), CK is the payload's checksum (mismatch:             *)
(* BadGzipFile "CRC check failed"), running out of bytes anywhere inside a *)
(* member is EOFError, zero padding after a member is skipped, anything    *)
(* else after a member must be another member (else BadGzipFile "Not a     *)
(* gzipped file"), and the payloads of consecutive members are             *)
(* concatenated.  As in a real stored deflate block, payload bytes appear  *)
(* verbatim in the member, so a member's body may contain 1F 8B.           *)
(*                                                                         *)
(* Sizes are scaled: Threshold stands for the 1 MiB of the source.         *)
(***************************************************************************)
EXTENDS Integers, Sequences, FiniteSets, TLC

VARIABLES
    pc,        \* where the program is
    ninputs,   \* len(args.input)
    cur,       \* 1-based position of main's loop in args.input
    done,      \* the inputs whose extract_from_elf call returned
    exc,       \* the exception that ended the process, "none" if none did
    vols,      \* len(volumes) of the current input
    volNo,     \* 1-based position of the loop over volumes
    walkIdx,   \* 1-based position of process_raw_files in the dump directory
    tmp,       \* the temporary directories that exist: creating input -> raw files
    registry,  \* extractor.extracted_files
    fs,        \* the regular files below the current output_dir
    dirs,      \* the directories below the current output_dir
    last,      \* the last raw file the walker handled and what came of it
    members,   \* the gzip members the located buffer was concatenated from
    offs       \* the result of find_gzip_offsets on that buffer

vars == <<pc, ninputs, cur, done, exc, vols, volNo, walkIdx, tmp, registry, fs, dirs,
          last, members, offs>>

\* ---------------------------------------------------------------- bounds

MaxInputs == 2
MaxVolumes == 2
MaxChunks == 2
MaxMembers == 3
MaxUiLen == 6

\* 1024*1024 in the source, scaled to the buffers of the model
Threshold == 8

\* ---------------------------------------------------------------- bytes

Min(a, b) == IF a < b THEN a ELSE b

\* data[a:b] of Python for 0 <= a, with 0-based a and exclusive b
Slice(s, a, b) == SubSeq(s, a + 1, Min(b, Len(s)))

StartsWith(s, p) == Len(s) >= Len(p) /\ SubSeq(s, 1, Len(p)) = p

EndsWith(s, p) == Len(s) >= Len(p) /\ SubSeq(s, Len(s) - Len(p) + 1, Len(s)) = p

RECURSIVE Sum(_)
Sum(s) == IF s = <<>> THEN 0 ELSE Head(s) + Sum(Tail(s))

RECURSIVE Flatten(_)
Flatten(ss) == IF ss = <<>> THEN <<>> ELSE Head(ss) \o Flatten(Tail(ss))

GzipMagic == <<31, 139>>

\* ---------------------------------------------------------------- gzip.GzipFile

Checksum(payload) == Sum(payload) % 256

\* a well-formed member holding payload
Member(payload) == GzipMagic \o <<8, Len(payload)>> \o payload \o <<Checksum(payload)>>

RECURSIVE SkipZeros(_, _)
SkipZeros(d, pos) ==
    IF pos <= Len(d) /\ d[pos] = 0 THEN SkipZeros(d, pos + 1) ELSE pos

\* GzipFile(fileobj=BytesIO(d)).read(): pos is the 1-based read position, out
\* the payload decoded so far, first tells the first member from a later one
RECURSIVE GzRead(_, _, _, _)
GzRead(d, pos, out, first) ==
    LET p == IF first THEN pos ELSE SkipZeros(d, pos)
        n == Len(d)
    IN  IF p > n THEN [st |-> "ok", out |-> out]
        ELSE IF p + 1 > n \/ <<d[p], d[p + 1]>> # GzipMagic
             THEN [st |-> "BadGzipFile", out |-> out]
        ELSE IF p + 2 > n THEN [st |-> "EOFError", out |-> out]
        ELSE IF d[p + 2] # 8 THEN [st |-> "BadGzipFile", out |-> out]
        ELSE IF p + 3 > n THEN [st |-> "EOFError", out |-> out]
        ELSE IF d[p + 3] > 15 THEN [st |-> "zlib.error", out |-> out]
        ELSE LET len == d[p + 3]
                 payload == SubSeq(d, p + 4, p + 3 + len)
             IN  IF p + 3 + len > n
                 THEN [st |-> "EOFError", out |-> out \o SubSeq(d, p + 4, n)]
                 ELSE IF p + 4 + len > n
                 THEN [st |-> "EOFError", out |-> out \o payload]
                 ELSE IF d[p + 4 + len] # Checksum(payload)
                 THEN [st |-> "BadGzipFile", out |-> out \o payload]
                 ELSE GzRead(d, p + 5 + len, out \o payload, FALSE)

GzipRead(d) == GzRead(d, 1, <<>>, TRUE)

\* ---------------------------------------------------------------- classifier

\* the file kinds, as the code points of the extension
Elf == <<101, 108, 102>>
Gz == <<103, 122>>
Bmp == <<98, 109, 112>>
Png == <<112, 110, 103>>
Gif == <<103, 105, 102>>
Zip == <<122, 105, 112>>
Bz2 == <<98, 122, 50>>
Xml == <<120, 109, 108>>
Jpg == <<106, 112, 103>>
Bin == <<98, 105, 110>>

MagicMap ==
    << [magic |-> <<127, 69, 76, 70>>, ext |-> Elf],
       [magic |-> <<31, 139>>, ext |-> Gz],
       [magic |-> <<66, 77>>, ext |-> Bmp],
       [magic |-> <<137, 80, 78, 71>>, ext |-> Png],
       [magic |-> <<71, 73, 70>>, ext |-> Gif],
       [magic |-> <<80, 75, 3, 4>>, ext |-> Zip],
       [magic |-> <<66, 90, 104>>, ext |-> Bz2],
       [magic |-> <<60, 63, 120, 109, 108>>, ext |-> Xml],
       [magic |-> <<60>>, ext |-> Xml] >>

RECURSIVE FirstMagic(_, _)
FirstMagic(header, i) ==
    IF i > Len(MagicMap) THEN <<>>
    ELSE IF StartsWith(header, MagicMap[i].magic) THEN MagicMap[i].ext
    ELSE FirstMagic(header, i + 1)

GetFileExtension(header) ==
    LET m == FirstMagic(header, 1)
    IN  IF m # <<>> THEN m
        ELSE IF Slice(header, 0, 4) \in {<<255, 216, 255, 224>>, <<255, 216, 255, 225>>}
             THEN Jpg
        ELSE Bin

\* ---------------------------------------------------------------- locator

RECURSIVE FindFrom(_, _)
FindFrom(data, i) ==
    IF i > Len(data) - 1 THEN <<>>
    ELSE IF <<data[i], data[i + 1]>> = GzipMagic
         THEN <<i - 1>> \o FindFrom(data, i + 1)
         ELSE FindFrom(data, i + 1)

FindGzipOffsetsFromOne(data) == FindFrom(data, 2)

\* find_gzip_offsets: 0-based offsets, in scan order
FindGzipOffsets(data) == FindFrom(data, 1)

\* ---------------------------------------------------------------- text

\* code points of the literals the source builds names from
DotBmp == <<46, 98, 109, 112>>
DotExtracted == <<46, 101, 120, 116, 114, 97, 99, 116, 101, 100>>
ImagesName == <<105, 109, 97, 103, 101, 115>>
ArchivePrefix == <<97, 114, 99, 104, 105, 118, 101, 95>>
RawSuffix == <<95, 114, 97, 119>>
ArchiveInfix == <<95, 97, 114, 99, 104, 105, 118, 101, 95>>
FilePrefix == <<102, 105, 108, 101, 45>>

\* '%d' % n
RECURSIVE Dec(_)
Dec(n) == IF n < 10 THEN <<48 + n>> ELSE Dec(n \div 10) \o <<48 + (n % 10)>>

\* '%04d' % n
Dec4(n) == IF n >= 1000 THEN Dec(n)
           ELSE <<48, 48 + (n \div 100), 48 + ((n \div 10) % 10), 48 + (n % 10)>>

ArchiveName(idx, ext) == ArchivePrefix \o Dec4(idx) \o <<46>> \o ext

\* ---------------------------------------------------------------- files

(* A path below output_dir is the sequence of its components; None (no    *)
(* path) is the empty sequence.  fs maps the regular files that exist to  *)
(* their content and to the number of times the run opened them for       *)
(* writing and renamed onto them; dirs is the set of directories.         *)
None == <<>>

OutPath(file_label) == <<file_label>>
RawPath(file_label) == <<file_label, file_label>>
ExtractedPath(file_label) == <<file_label, file_label \o DotExtracted>>
ArchivesDir(file_label) == <<file_label, ImagesName>>
ArchivePath(file_label, idx, ext) == <<file_label, ImagesName, ArchiveName(idx, ext)>>

Exists(s, path) == path \in DOMAIN s.fs

Writes(s, path) == IF Exists(s, path) THEN s.fs[path].writes ELSE 0

Renames(s, path) == IF Exists(s, path) THEN s.fs[path].renames ELSE 0

\* open(path, 'wb') raises OSError: the fault injected at this site, or the
\* path is a directory, or its parent is not one
OpenFails(s, path, site, wf) ==
    \/ site \in wf
    \/ path \in s.dirs
    \/ Len(path) > 1 /\ SubSeq(path, 1, Len(path) - 1) \notin s.dirs

\* with open(path, 'wb') as f: f.write(data)
WriteFile(s, path, data) ==
    [s EXCEPT !.fs = [p \in DOMAIN s.fs \cup {path} |->
        IF p = path
        THEN [data |-> data, writes |-> Writes(s, path) + 1, renames |-> Renames(s, path)]
        ELSE s.fs[p]]]

\* path.rename(target) on POSIX: target is replaced; onto itself: nothing
RenameFile(s, path, target) ==
    IF path = target THEN s
    ELSE [s EXCEPT !.fs = [p \in (DOMAIN s.fs \cup {target}) \ {path} |->
            IF p = target
            THEN [data |-> s.fs[path].data, writes |-> s.fs[path].writes + Writes(s, target),
                  renames |-> s.fs[path].renames + Renames(s, target) + 1]
            ELSE s.fs[p]]]

\* Path.mkdir(parents=True, exist_ok=True) raises FileExistsError (an
\* OSError) when a component is a regular file
RECURSIVE MkdirFails(_, _)
MkdirFails(s, path) ==
    path # <<>> /\ (Exists(s, path) \/ MkdirFails(s, SubSeq(path, 1, Len(path) - 1)))

RECURSIVE Prefixes(_)
Prefixes(path) ==
    IF path = <<>> THEN {} ELSE {path} \cup Prefixes(SubSeq(path, 1, Len(path) - 1))

Mkdir(s, path) == [s EXCEPT !.dirs = @ \cup Prefixes(path)]

SetKey(s, key, path) ==
    [s EXCEPT !.reg = [k \in DOMAIN s.reg \cup {key} |-> IF k = key THEN path ELSE s.reg[k]]]

Note(s, field, value) == [s EXCEPT !.tr = [@ EXCEPT ![field] = value]]

\* the places where the source opens or renames a file, for fault injection
WriteSites == {"small", "extracted", "rawcopy", "raw", "archive", "rename"}

\* ---------------------------------------------------------------- decoders

(* Every handler below takes the extractor's state s = [reg, fs, dirs, tr] *)
(* (extracted_files, the files and directories below output_dir, and what  *)
(* the call did so far) and the set wf of write sites that raise OSError,  *)
(* and yields the state it leaves with its return value and the exception  *)
(* that leaves it ("none": it returned).  A handler is split where it      *)
(* binds an intermediate result: the rest of it is the next operator.      *)

\* extract_gzip_bounded from "extracted = gzfile.read()" on: r is what the read
\* gave; OSError and EOFError are caught, anything else leaves
BoundedWrite(s, r, output_path, wf) ==
    IF r.st \notin {"ok", "BadGzipFile", "EOFError"}
    THEN [s |-> s, ok |-> FALSE, exc |-> r.st]
    ELSE IF r.st = "ok" /\ Len(r.out) > 0 /\ ~OpenFails(s, output_path, "archive", wf)
    THEN [s |-> WriteFile(s, output_path, r.out), ok |-> TRUE, exc |-> "none"]
    ELSE [s |-> s, ok |-> FALSE, exc |-> "none"]

\* extract_gzip_bounded; next_offset None is 0 (both are false in the source)
ExtractGzipBounded(s, data, start_offset, next_offset, output_path, wf) ==
    BoundedWrite(Note(s, "attempts", Append(s.tr.attempts, start_offset)),
                 GzipRead(IF next_offset # 0 THEN Slice(data, start_offset, next_offset)
                          ELSE Slice(data, start_offset, Len(data))),
                 output_path, wf)

\* extract_gzip_stream from open(output_path, 'wb') on: the output is opened
\* before the first byte is decoded and keeps what was decoded when the
\* decoder raises; only OSError is caught
StreamCopy(s, r, output_path, wf) ==
    IF OpenFails(s, output_path, "extracted", wf)
    THEN [s |-> s, ok |-> FALSE, exc |-> "none"]
    ELSE [s |-> WriteFile(s, output_path, r.out), ok |-> r.st = "ok",
          exc |-> IF r.st \in {"ok", "BadGzipFile"} THEN "none" ELSE r.st]

ExtractGzipStream(s, data, output_path, wf) ==
    StreamCopy(Note(s, "stream", TRUE), GzipRead(data), output_path, wf)

\* ---------------------------------------------------------------- splitter

ArchiveKey(file_label, idx) == file_label \o ArchiveInfix \o Dec(idx)

\* lines 112-125: the rename to better_path and the registry entry
RenameArchive(s, output_path, better_path, key, wf) ==
    IF "rename" \in wf \/ better_path \in s.dirs
    THEN [s |-> s, ok |-> FALSE, exc |-> "none"]
    ELSE [s |-> Note(SetKey(RenameFile(s, output_path, better_path), key, better_path),
                     "keys", s.tr.keys \cup {key}),
          ok |-> TRUE, exc |-> "none"]

\* lines 99-112: b is what extract_gzip_bounded gave
ClassifyArchive(b, file_label, idx, output_path, wf) ==
    IF b.exc # "none" \/ ~b.ok THEN b
    ELSE RenameArchive(b.s, output_path,
                       ArchivePath(file_label, idx,
                                   GetFileExtension(Slice(b.s.fs[output_path].data, 0, 4))),
                       ArchiveKey(file_label, idx), wf)

\* _extract_and_rename_archive
ExtractAndRenameArchive(s, file_label, section_data, offset, next_offset, idx, wf) ==
    ClassifyArchive(ExtractGzipBounded(s, section_data, offset, next_offset,
                                       ArchivePath(file_label, idx, Bin), wf),
                    file_label, idx, ArchivePath(file_label, idx, Bin), wf)

RECURSIVE SplitLoop(_, _, _, _, _, _, _)

RECURSIVE SplitLoopRenumbered(_, _, _, _, _, _, _)
SplitLoopRenumbered(s, file_label, section_data, gzip_offsets, idx, extracted_count, wf) ==
    IF idx >= Len(gzip_offsets)
    THEN [s |-> Note(s, "count", extracted_count), ret |-> extracted_count, exc |-> "none"]
    ELSE LET a == ExtractAndRenameArchive(s, file_label, section_data,
                      gzip_offsets[idx + 1],
                      IF idx + 1 < Len(gzip_offsets) THEN gzip_offsets[idx + 2] ELSE 0,
                      extracted_count, wf)
         IN  IF a.exc # "none" THEN [s |-> a.s, ret |-> 0, exc |-> a.exc]
             ELSE SplitLoopRenumbered(a.s, file_label, section_data, gzip_offsets, idx + 1,
                      IF a.ok THEN extracted_count + 1 ELSE extracted_count, wf)

\* lines 245-248: a is what _extract_and_rename_archive gave for idx
SplitCount(a, file_label, section_data, gzip_offsets, idx, extracted_count, wf) ==
    IF a.exc # "none" THEN [s |-> a.s, ret |-> 0, exc |-> a.exc]
    ELSE SplitLoop(a.s, file_label, section_data, gzip_offsets, idx + 1,
                   IF a.ok THEN extracted_count + 1 ELSE extracted_count, wf)

\* the for loop of process_large_binary_section, from the 0-based idx on
SplitLoop(s, file_label, section_data, gzip_offsets, idx, extracted_count, wf) ==
    IF idx >= Len(gzip_offsets)
    THEN [s |-> Note(s, "count", extracted_count), ret |-> extracted_count, exc |-> "none"]
    ELSE SplitCount(ExtractAndRenameArchive(s, file_label, section_data,
                        gzip_offsets[idx + 1],
                        IF idx + 1 < Len(gzip_offsets) THEN gzip_offsets[idx + 2] ELSE 0,
                        idx, wf),
                    file_label, section_data, gzip_offsets, idx, extracted_count, wf)

RawKey(file_label) == file_label \o RawSuffix

\* lines 220-251: gzip_offsets is what find_gzip_offsets gave
SplitArchives(s, file_label, section_data, gzip_offsets, wf) ==
    IF gzip_offsets = <<>>
    THEN [s |-> Note(s, "count", 0), ret |-> 0, exc |-> "none"]
    ELSE IF MkdirFails(s, ArchivesDir(file_label))
    THEN [s |-> s, ret |-> 0, exc |-> "OSError"]
    ELSE SplitLoop(Note(Mkdir(s, ArchivesDir(file_label)), "scan", TRUE), file_label,
                   section_data, gzip_offsets, 0, 0, wf)

\* lines 210-220: the raw copy and its registry entry
SaveRaw(s, file_label, section_data, wf) ==
    IF OpenFails(s, RawPath(file_label), "rawcopy", wf)
    THEN [s |-> Note(s, "count", 0), ret |-> 0, exc |-> "none"]
    ELSE SplitArchives(Note(SetKey(WriteFile(s, RawPath(file_label), section_data),
                                   RawKey(file_label), RawPath(file_label)),
                            "located", TRUE),
                       file_label, section_data, FindGzipOffsets(section_data), wf)

\* process_large_binary_section, with output_subdir = output_dir / file_label
ProcessLargeBinarySection(s, file_label, section_data, wf) ==
    IF MkdirFails(s, OutPath(file_label))
    THEN [s |-> Note(s, "split", TRUE), ret |-> 0, exc |-> "OSError"]
    ELSE SaveRaw(Mkdir(Note(s, "split", TRUE), OutPath(file_label)), file_label,
                 section_data, wf)

\* ---------------------------------------------------------------- router

IsImageLabelUpper(file_label) == EndsWith(file_label, <<46, 66, 77, 80>>)

IsImageLabel(file_label) == EndsWith(file_label, DotBmp)

\* lines 259-268 and 298-307: data written as it is, the path returned
WriteVerbatim(s, output_path, section_data, site, wf) ==
    IF OpenFails(s, output_path, site, wf)
    THEN [s |-> s, ret |-> None, exc |-> "none"]
    ELSE [s |-> WriteFile(s, output_path, section_data), ret |-> output_path, exc |-> "none"]

\* line 296: the splitter's count is dropped, the raw path is returned
SplitReturn(sp, file_label) ==
    IF sp.exc # "none" THEN [s |-> sp.s, ret |-> None, exc |-> sp.exc]
    ELSE [s |-> sp.s, ret |-> RawPath(file_label), exc |-> "none"]

\* lines 288-307
RouteOffsets(s, file_label, section_data, gzip_offsets, wf) ==
    IF Len(gzip_offsets) > 1
    THEN SplitReturn(ProcessLargeBinarySection(s, file_label, section_data, wf), file_label)
    ELSE WriteVerbatim(s, RawPath(file_label), section_data, "raw", wf)

\* lines 285-307
RouteSplit(s, file_label, section_data, wf) ==
    IF Len(section_data) > Threshold
    THEN RouteOffsets(Note(s, "located", TRUE), file_label, section_data,
                      FindGzipOffsets(section_data), wf)
    ELSE WriteVerbatim(s, RawPath(file_label), section_data, "raw", wf)

\* lines 279-283: g is what extract_gzip_stream gave
StreamReturn(g, file_label, section_data, wf) ==
    IF g.exc # "none" THEN [s |-> g.s, ret |-> None, exc |-> g.exc]
    ELSE IF g.ok THEN [s |-> g.s, ret |-> ExtractedPath(file_label), exc |-> "none"]
    ELSE RouteSplit(g.s, file_label, section_data, wf)

\* lines 274-307
RouteLarge(s, file_label, section_data, wf) ==
    IF Len(section_data) >= 2 /\ Slice(section_data, 0, 2) = GzipMagic
    THEN StreamReturn(ExtractGzipStream(s, section_data, ExtractedPath(file_label), wf),
                      file_label, section_data, wf)
    ELSE RouteSplit(s, file_label, section_data, wf)

\* extract_from_section, with output_subdir = output_dir / file_label
ExtractFromSection(s, file_label, section_data, wf) ==
    IF IsImageLabel(file_label) \/ Len(section_data) < Threshold
    THEN WriteVerbatim(s, OutPath(file_label), section_data, "small", wf)
    ELSE IF MkdirFails(s, OutPath(file_label))
    THEN [s |-> s, ret |-> None, exc |-> "OSError"]
    ELSE RouteLarge(Mkdir(s, OutPath(file_label)), file_label, section_data, wf)

\* ---------------------------------------------------------------- labels

\* bytes.decode('utf-16-le', errors='ignore'): one code unit per byte pair, a
\* trailing odd byte is dropped (the buffers of the model hold no surrogates)
RECURSIVE DecodeUtf16(_)
DecodeUtf16(b) ==
    IF Len(b) < 2 THEN <<>>
    ELSE <<b[1] + 256 * b[2]>> \o DecodeUtf16(SubSeq(b, 3, Len(b)))

\* text.split('\x00')[0]
RECURSIVE BeforeNul(_)
BeforeNul(t) ==
    IF t = <<>> \/ Head(t) = 0 THEN <<>> ELSE <<Head(t)>> \o BeforeNul(Tail(t))

\* str.isspace() on the Basic Multilingual Plane
IsSpace(c) ==
    \/ c \in 9..13 \/ c \in 28..32 \/ c \in {133, 160, 5760} \/ c \in 8192..8202
    \/ c \in {8232, 8233, 8239, 8287, 12288}

RECURSIVE LStrip(_)
LStrip(t) == IF t # <<>> /\ IsSpace(Head(t)) THEN LStrip(Tail(t)) ELSE t

RECURSIVE RStrip(_)
RStrip(t) ==
    IF t # <<>> /\ IsSpace(t[Len(t)]) THEN RStrip(SubSeq(t, 1, Len(t) - 1)) ELSE t

\* str.strip()
Strip(t) == RStrip(LStrip(t))

\* str.lower() on ASCII
Lower(t) == [i \in 1..Len(t) |-> IF t[i] \in 65..90 THEN t[i] + 32 ELSE t[i]]

ExtractFileLabelLonger(ui) ==
    IF ~ui.exists \/ ~ui.readable \/ Len(ui.data) <= 2 THEN None
    ELSE IF Len(Strip(BeforeNul(DecodeUtf16(ui.data)))) > 2
    THEN Strip(BeforeNul(DecodeUtf16(ui.data)))
    ELSE None

\* _extract_file_label: ui is the sibling section0.ui, [exists, readable, data]
ExtractFileLabel(ui) ==
    IF ~ui.exists THEN None
    ELSE IF ~ui.readable THEN None
    ELSE IF Len(ui.data) > 2
    THEN LET file_label == Strip(BeforeNul(DecodeUtf16(ui.data)))
         IN  IF file_label # <<>> /\ Len(file_label) > 1 THEN file_label ELSE None
    ELSE None

\* lines 320-323 of process_raw_files: the label of a raw file in parent_dir
DeriveLabel(parent_dir, ui) ==
    LET file_label == ExtractFileLabel(ui)
    IN  IF file_label = None \/ Len(file_label) <= 1
        THEN Lower(SubSeq(parent_dir, 6, Len(parent_dir)))
        ELSE file_label

\* ---------------------------------------------------------------- walker

\* what one call of the router did: the offsets the bounded decoder was tried
\* at, whether the stream decoder and the locator ran, whether the splitter was
\* entered and reached its loop, the registry keys its loop set, and the count
\* it returned (-1: it did not return)
NoTrace == [attempts |-> <<>>, stream |-> FALSE, located |-> FALSE, split |-> FALSE,
            scan |-> FALSE, keys |-> {}, count |-> -1]

\* lines 335-338: r is what extract_from_section gave; an OSError is logged,
\* another exception leaves the walker
Register(r, file_label) ==
    IF r.exc = "OSError"
    THEN [s |-> r.s, label |-> file_label, ret |-> None, exc |-> "none", how |-> "caught"]
    ELSE IF r.exc # "none"
    THEN [s |-> r.s, label |-> file_label, ret |-> None, exc |-> r.exc, how |-> "raised"]
    ELSE [s |-> IF r.ret # None THEN SetKey(r.s, file_label, r.ret) ELSE r.s,
          label |-> file_label, ret |-> r.ret, exc |-> "none", how |-> "done"]

\* lines 325-338
ReadAndRoute(s, f, file_label, wf, readFails) ==
    IF readFails
    THEN [s |-> s, label |-> file_label, ret |-> None, exc |-> "none", how |-> "caught"]
    ELSE Register(ExtractFromSection(s, file_label, f.data, wf), file_label)

(* One iteration of the loop of process_raw_files over the raw file       *)
(* f = [dir, ui, data] (parent directory name, sibling UI section, the    *)
(* section's bytes).  readFails: reading the raw file raises OSError.     *)
(* how: "skipped" (parent is no file- directory), "caught" (an OSError    *)
(* was logged), "raised" (another exception leaves the walker), "done".   *)
ProcessRawFile(s, f, wf, readFails) ==
    IF ~StartsWith(f.dir, FilePrefix)
    THEN [s |-> s, label |-> None, ret |-> None, exc |-> "none", how |-> "skipped"]
    ELSE ReadAndRoute(s, f, DeriveLabel(f.dir, f.ui), wf, readFails)

\* ---------------------------------------------------------------- inputs

\* the payloads of the located members: none, "A", the gzip magic, PNG, two
\* bytes whose checksum is 8B, and each byte of the magic alone
LocatePayloads == {<<>>, <<65>>, <<31, 139>>, <<137, 80, 78, 71>>, <<108, 31>>, <<31>>, <<139>>}

\* the UTF-16LE bytes of a text
RECURSIVE Utf16(_)
Utf16(t) == IF t = <<>> THEN <<>> ELSE <<Head(t) % 256, Head(t) \div 256>> \o Utf16(Tail(t))

RECURSIVE SeqsUpTo(_, _)
SeqsUpTo(S, n) ==
    IF n = 0 THEN {<<>>}
    ELSE LET shorter == SeqsUpTo(S, n - 1)
         IN  shorter \cup {Append(q, x) : q \in shorter, x \in S}

NoUi == [exists |-> FALSE, readable |-> FALSE, data |-> <<>>]

UiFile(data) == [exists |-> TRUE, readable |-> TRUE, data |-> data]

\* "file-ab", "file-Cd" and a directory the walker ignores
DirAb == FilePrefix \o <<97, 98>>
DirCd == FilePrefix \o <<67, 100>>
DirOther == <<118, 111, 108, 45, 97, 98>>

\* PNG, ELF, one byte, a payload holding the gzip magic, and no payload
PngBytes == <<137, 80, 78, 71>>
ElfBytes == <<127, 69, 76, 70>>

\* a member cut before its checksum, one with an invalid block, one with a
\* wrong checksum, a magic followed by an unknown method
Truncated == <<31, 139, 8, 2, 65, 66>>
Corrupt == <<31, 139, 8, 255, 65>>
BadChecksum == <<31, 139, 8, 2, 66, 77, 0>>
BadMethod == <<31, 139, 7, 0, 0>>

Chunks ==
    { Member(PngBytes), Member(ElfBytes), Member(<<65>>), Member(<<31, 139>>), Member(<<>>),
      Truncated, Corrupt, BadChecksum, BadMethod, <<65, 66, 67>>, <<0, 0>> }

SectionData == {Flatten(cs) : cs \in SeqsUpTo(Chunks, MaxChunks)}

\* "Sp" NUL NUL, "a.bmp" NUL, "a.png" NUL, "S" NUL, " ab " NUL, NUL alone
SectionUis ==
    { NoUi,
      [exists |-> TRUE, readable |-> FALSE, data |-> Utf16(<<83, 112, 0>>)],
      UiFile(Utf16(<<83, 112, 0, 0>>)),
      UiFile(Utf16(<<97, 46, 98, 109, 112, 0>>)),
      UiFile(Utf16(<<97, 46, 112, 110, 103, 0>>)),
      UiFile(Utf16(<<83, 0>>)),
      UiFile(Utf16(<<32, 97, 98, 32, 0>>)),
      UiFile(<<0, 0>>) }

RawFile(dir, ui, data) == [input |-> 1, vol |-> 1, dir |-> dir, ui |-> ui, data |-> data]

\* the raw files of the label specification: every UI section of up to
\* MaxUiLen bytes over NUL, space, "S" and "b"
UiAlphabet == {0, 32, 83, 98}

LabelUis ==
    {UiFile(b) : b \in SeqsUpTo(UiAlphabet, MaxUiLen)}
        \cup {NoUi} \cup {[exists |-> TRUE, readable |-> FALSE, data |-> <<83, 0, 98, 0>>]}

\* what a volume of the run specification can dump: a small BMP and a section
\* of two archives under the label "ab", a gzip stream under the UI label "ab",
\* and a gzip stream cut before its checksum
RunFiles ==
    { [dir |-> DirAb, ui |-> NoUi, data |-> <<66, 77, 1>>],
      [dir |-> DirAb, ui |-> NoUi, data |-> <<65>> \o Member(<<65>>) \o Member(ElfBytes)],
      [dir |-> DirCd, ui |-> UiFile(Utf16(<<97, 98, 0>>)), data |-> Member(PngBytes)],
      [dir |-> DirCd, ui |-> NoUi, data |-> <<31, 139, 8, 4, 137, 80, 78, 71>>] }

\* what one volume dumps: nothing, or one raw section
RunDumps == {<<>>} \cup {<<f>> : f \in RunFiles}

\* the I/O that fails while one raw file is handled: nothing, the read of the
\* raw file, one write site, or every write site
Faults == {{}, {"read"}, WriteSites} \cup {{site} : site \in WriteSites}

\* ---------------------------------------------------------------- state

NoLast == [valid |-> FALSE]

State == [reg |-> registry, fs |-> fs, dirs |-> dirs, tr |-> NoTrace]

TemporaryDirectoryLeak(t, input, e) ==
    IF e = "none" THEN [i \in DOMAIN t \ {input} |-> t[i]] ELSE t

\* TemporaryDirectory.__exit__ of the with block of extract_from_elf, left
\* normally (e = "none") or by the exception e: the directory of input goes
TemporaryDirectoryExit(t, input, e) == [i \in DOMAIN t \ {input} |-> t[i]]

InitRun ==
    /\ pc = "main"
    /\ ninputs \in 1..MaxInputs
    /\ cur = 1
    /\ done = {}
    /\ exc = "none"
    /\ vols = 0
    /\ volNo = 0
    /\ walkIdx = 0
    /\ tmp = <<>>
    /\ registry = <<>>
    /\ fs = <<>>
    /\ dirs = {}
    /\ last = NoLast
    /\ members = <<>>
    /\ offs = <<>>

\* the walker in front of one raw file that a volume of the only input dumped
InitWalk(files) ==
    /\ pc = "walk"
    /\ ninputs = 1
    /\ cur = 1
    /\ done = {}
    /\ exc = "none"
    /\ vols = 1
    /\ volNo = 1
    /\ walkIdx = 1
    /\ \E f \in files : tmp = (1 :> <<f>>)
    /\ registry = <<>>
    /\ fs = <<>>
    /\ dirs = {}
    /\ last = NoLast
    /\ members = <<>>
    /\ offs = <<>>

\* the walker in front of two raw files of one dump
InitWalkTwo(earlier, files) ==
    /\ pc = "walk"
    /\ ninputs = 1
    /\ cur = 1
    /\ done = {}
    /\ exc = "none"
    /\ vols = 1
    /\ volNo = 1
    /\ walkIdx = 1
    /\ \E e \in earlier, f \in files : tmp = (1 :> <<e, f>>)
    /\ registry = <<>>
    /\ fs = <<>>
    /\ dirs = {}
    /\ last = NoLast
    /\ members = <<>>
    /\ offs = <<>>

\* a section of several archives, or a file the walker ignores, and then any
\* section under one of two labels
InitSplit ==
    InitWalkTwo({RawFile(DirAb, NoUi, <<65>> \o Member(<<65>>) \o Member(ElfBytes)),
                 RawFile(DirOther, NoUi, <<65>>)},
                {RawFile(d, NoUi, b) : d \in {DirAb, DirCd}, b \in SectionData})

InitSection ==
    InitWalk({RawFile(d, u, b) : d \in {DirAb, DirCd, DirOther}, u \in SectionUis,
                                 b \in SectionData})

InitLabel ==
    InitWalk({RawFile(d, u, b) : d \in {DirAb, DirCd}, u \in LabelUis,
                                 b \in {<<66, 77, 1>>, Member(PngBytes)}})

\* a buffer of two or more well-formed members, before it is scanned
InitLocate ==
    /\ pc = "locate"
    /\ ninputs = 0
    /\ cur = 0
    /\ done = {}
    /\ exc = "none"
    /\ vols = 0
    /\ volNo = 0
    /\ walkIdx = 0
    /\ tmp = <<>>
    /\ registry = <<>>
    /\ fs = <<>>
    /\ dirs = {}
    /\ last = NoLast
    /\ members \in {[i \in DOMAIN ps |-> Member(ps[i])] :
                        ps \in SeqsUpTo(LocatePayloads, MaxMembers) \ SeqsUpTo(LocatePayloads, 1)}
    /\ offs = <<>>

\* ---------------------------------------------------------------- actions

\* main, lines 418-428: the next input gets a new extractor; its output
\* directory (args.output, or args.output/<stem> for several inputs) is new
StartInput ==
    /\ pc = "main"
    /\ cur <= ninputs
    /\ pc' = "elf"
    /\ registry' = <<>>
    /\ fs' = <<>>
    /\ dirs' = {}
    /\ last' = NoLast
    /\ UNCHANGED <<ninputs, cur, done, exc, vols, volNo, walkIdx, tmp, members, offs>>

\* extract_from_elf, lines 344-362: up to the creation of the temporary directory
OpenElf ==
    /\ pc = "elf"
    /\ \E outcome \in {"missing", "readerror", "novolumes", "volumes"} :
          IF outcome = "volumes"
          THEN /\ \E n \in 1..MaxVolumes : vols' = n
               /\ volNo' = 1
               /\ tmp' = (cur :> <<>>) @@ tmp
               /\ pc' = "volume"
               /\ UNCHANGED <<cur, done>>
          ELSE /\ done' = done \cup {cur}
               /\ cur' = cur + 1
               /\ pc' = "main"
               /\ UNCHANGED <<vols, volNo, tmp>>
    /\ UNCHANGED <<ninputs, exc, walkIdx, registry, fs, dirs, last, members, offs>>

Tagged(files, input, vol) ==
    [i \in DOMAIN files |-> [input |-> input, vol |-> vol, dir |-> files[i].dir,
                             ui |-> files[i].ui, data |-> files[i].data]]

\* lines 364-381: one volume; the decomposer dumps below the shared tmpdir
ProcessVolume ==
    /\ pc = "volume"
    /\ volNo <= vols
    /\ \E outcome \in {"oserror", "invalid", "processfailed", "dumperror", "dumped"} :
          IF outcome \in {"dumperror", "dumped"}
          THEN /\ \E files \in RunDumps :
                     tmp' = [tmp EXCEPT ![cur] = @ \o Tagged(files, cur, volNo)]
               /\ IF outcome = "dumped"
                  THEN pc' = "walk" /\ walkIdx' = 1 /\ UNCHANGED volNo
                  ELSE volNo' = volNo + 1 /\ UNCHANGED <<pc, walkIdx>>
          ELSE /\ volNo' = volNo + 1
               /\ UNCHANGED <<pc, walkIdx, tmp>>
    /\ UNCHANGED <<ninputs, cur, done, exc, vols, registry, fs, dirs, last, members, offs>>

\* the walker after the raw file f gave r: an exception that is no OSError
\* unwinds through the with block, extract_from_elf and main
Walked(f, r, wf, readFails) ==
    /\ registry' = r.s.reg
    /\ fs' = r.s.fs
    /\ dirs' = r.s.dirs
    /\ last' = [valid |-> TRUE, file |-> f, label |-> r.label, ret |-> r.ret,
                exc |-> r.exc, how |-> r.how, wf |-> wf, readFails |-> readFails,
                tr |-> r.s.tr]
    /\ IF r.how = "raised"
       THEN /\ pc' = "crashed"
            /\ exc' = r.exc
            /\ tmp' = TemporaryDirectoryExit(tmp, cur, r.exc)
            /\ UNCHANGED walkIdx
       ELSE /\ walkIdx' = walkIdx + 1
            /\ UNCHANGED <<pc, exc, tmp>>

\* one iteration of process_raw_files
WalkFile ==
    /\ pc = "walk"
    /\ walkIdx <= Len(tmp[cur])
    /\ \E wf \in Faults :
          Walked(tmp[cur][walkIdx],
                 ProcessRawFile(State, tmp[cur][walkIdx], wf, "read" \in wf),
                 wf, "read" \in wf)
    /\ UNCHANGED <<ninputs, cur, done, vols, volNo, members, offs>>

\* process_raw_files returns: the next volume
WalkDone ==
    /\ pc = "walk"
    /\ walkIdx > Len(tmp[cur])
    /\ pc' = "volume"
    /\ volNo' = volNo + 1
    /\ UNCHANGED <<ninputs, cur, done, exc, vols, walkIdx, tmp, registry, fs, dirs, last,
                   members, offs>>

\* lines 383 and 430-433: the with block ends, extract_from_elf returns
CloseElf ==
    /\ pc = "volume"
    /\ volNo > vols
    /\ tmp' = TemporaryDirectoryExit(tmp, cur, "none")
    /\ done' = done \cup {cur}
    /\ cur' = cur + 1
    /\ pc' = "main"
    /\ UNCHANGED <<ninputs, exc, vols, volNo, walkIdx, registry, fs, dirs, last, members, offs>>

\* line 435
Finish ==
    /\ pc = "main"
    /\ cur > ninputs
    /\ pc' = "exit"
    /\ UNCHANGED <<ninputs, cur, done, exc, vols, volNo, walkIdx, tmp, registry, fs, dirs,
                   last, members, offs>>

\* find_gzip_offsets on the concatenation of the members
Locate ==
    /\ pc = "locate"
    /\ offs' = FindGzipOffsets(Flatten(members))
    /\ pc' = "located"
    /\ UNCHANGED <<ninputs, cur, done, exc, vols, volNo, walkIdx, tmp, registry, fs, dirs,
                   last, members>>

Next == StartInput \/ OpenElf \/ ProcessVolume \/ WalkFile \/ WalkDone \/ CloseElf \/ Finish

Spec == InitRun /\ [][Next]_vars

SpecSection == InitSection /\ [][WalkFile]_vars

SpecLabel == InitLabel /\ [][WalkFile]_vars

SpecSplit == InitSplit /\ [][WalkFile]_vars

SpecLocate == InitLocate /\ [][Locate]_vars

\* ---------------------------------------------------------------- claims

Range(q) == {q[i] : i \in DOMAIN q}

\* the walker handed the last raw file's bytes to the router
Routed == last.valid /\ last.how # "skipped" /\ ~last.readFails

LastData == last.file.data

LastOffsets == FindGzipOffsets(LastData)

\* the slice the splitter cuts for the 0-based boundary i
BoundarySlice(data, offsets, i) ==
    Slice(data, offsets[i + 1], IF i + 1 < Len(offsets) THEN offsets[i + 2] ELSE Len(data))

\* C1: once the splitter scans the candidate offsets of a section, a failed
\* decode at one boundary is contained: decoding is attempted at every offset,
\* the splitter returns its count and no exception leaves it.
C1_BoundaryFailureContained ==
    (last.valid /\ last.tr.scan) =>
        /\ last.tr.attempts = LastOffsets
        /\ last.tr.count >= 0
        /\ last.exc = "none"

GzipPrefixed(data) == Len(data) >= 2 /\ SubSeq(data, 1, 2) = GzipMagic

\* C2: for a section of at least the threshold whose label is no image label
\* and which begins with the gzip magic, when decoding the whole buffer as one
\* stream is invalid or yields no byte, the router returns no path, nothing is
\* registered under the label and no exception ends the run.
C2_StreamFailureReported ==
    ( /\ Routed
      /\ ~EndsWith(last.label, DotBmp)
      /\ Len(LastData) >= Threshold
      /\ GzipPrefixed(LastData)
      /\ (GzipRead(LastData).st # "ok" \/ GzipRead(LastData).out = <<>>) ) =>
        /\ last.ret = None
        /\ last.label \notin DOMAIN registry
        /\ last.exc = "none"

Buffer == Flatten(members)

\* the offset at which the k-th member begins
RECURSIVE MemberStart(_)
MemberStart(k) == IF k = 1 THEN 0 ELSE MemberStart(k - 1) + Len(members[k - 1])

MemberStarts == [k \in DOMAIN members |-> MemberStart(k)]

MagicAt(data, i) == data[i + 1] = 31 /\ data[i + 2] = 139

\* C3 as stated: on a buffer of two or more well-formed members the locator
\* returns exactly the offsets at which the members begin, in ascending order.
C3_ExactlyMemberStarts ==
    pc = "located" => offs = MemberStarts

\* C3 as amended: the locator returns, in strictly ascending order, exactly
\* the offsets at which the bytes 1F 8B occur; every member start is among
\* them, and so is every other place of a member where the two bytes occur.
C3_EveryMagicOccurrence ==
    pc = "located" =>
        /\ \A i, j \in DOMAIN offs : i < j => offs[i] < offs[j]
        /\ Range(offs) = {i \in 0..(Len(Buffer) - 2) : MagicAt(Buffer, i)}
        /\ Range(MemberStarts) \subseteq Range(offs)

\* C3's case: a member whose body holds the magic gave an offset that is no
\* member start
C3_Witness ==
    /\ pc = "located"
    /\ Len(members) >= 2
    /\ Range(offs) \ Range(MemberStarts) # {}

\* the payload the bounded decoder gets from the slice of boundary i, and
\* whether the slice decodes to one
SlicePayload(i) == GzipRead(BoundarySlice(LastData, LastOffsets, i)).out

SliceDecodes(i) ==
    /\ GzipRead(BoundarySlice(LastData, LastOffsets, i)).st = "ok"
    /\ SlicePayload(i) # <<>>

\* the slice of boundary i decoded to a payload that was written and renamed
SliceExtracted(i) ==
    SliceDecodes(i) /\ "archive" \notin last.wf /\ "rename" \notin last.wf

KeyText(file_label, i) == file_label \o <<95, 97, 114, 99, 104, 105, 118, 101, 95>> \o Dec(i)

\* C4 as stated: after the splitter returned, the registry holds the key
\* label_archive_i exactly for the boundaries i whose slice decoded to a
\* payload that was renamed, and the count is the number of these keys.
C4_RegistryExactlyDecodedSlices ==
    (last.valid /\ last.tr.scan /\ last.tr.count >= 0) =>
        /\ \A i \in 0..(Len(LastOffsets) - 1) :
              KeyText(last.label, i) \in DOMAIN registry <=> SliceExtracted(i)
        /\ last.tr.count =
              Cardinality({i \in 0..(Len(LastOffsets) - 1) :
                              KeyText(last.label, i) \in DOMAIN registry})

\* C4 as amended: the splitter sets the key label_archive_i exactly for the
\* boundaries i at which it tried to decode and whose slice decoded to a
\* payload that was written and renamed; the entry names archive_i.<kind>
\* holding that payload, i being the position of the offset; keys that an
\* earlier section of the same label left stay; a returned count is the
\* number of keys set.
C4_SplitterSetsDecodedSlices ==
    (last.valid /\ last.tr.scan) =>
        /\ \A i \in 0..(Len(LastOffsets) - 1) :
              /\ KeyText(last.label, i) \in last.tr.keys
                    <=> (i < Len(last.tr.attempts) /\ SliceExtracted(i))
              /\ KeyText(last.label, i) \in last.tr.keys =>
                    /\ registry[KeyText(last.label, i)] =
                          <<last.label, ImagesName,
                            ArchiveName(i, GetFileExtension(Slice(SlicePayload(i), 0, 4)))>>
                    /\ fs[registry[KeyText(last.label, i)]].data = SlicePayload(i)
        /\ last.tr.keys \subseteq {KeyText(last.label, i) : i \in 0..(Len(LastOffsets) - 1)}
        /\ last.tr.count >= 0 => last.tr.count = Cardinality(last.tr.keys)

\* C4's case: the first boundary failed and the second was extracted, so the
\* only key is the one of index 1
C4_Witness ==
    /\ last.valid
    /\ last.tr.scan
    /\ last.tr.count = 1
    /\ last.tr.keys = {KeyText(last.label, 1)}

\* C5: during one extraction run every output file is written at most once
\* and renamed onto at most once.
C5_WrittenOnce ==
    \A p \in DOMAIN fs : fs[p].writes <= 1 /\ fs[p].renames <= 1

\* C6: when the run ends, every input other than one whose processing failed
\* has been processed: a failure on one input does not keep a later input from
\* being processed.
C6_LaterInputsProcessed ==
    pc \in {"exit", "crashed"} => \A i \in 1..ninputs : i # cur => i \in done

\* C7: no temporary directory exists unless an input is between the start and
\* the end of its with block, whether that block ended by a return or by an
\* exception; the only one that exists then is the current input's, and it
\* holds only what the volumes of that input dumped.
C7_TemporaryDirectoryRemoved ==
    /\ pc \in {"main", "elf", "exit", "crashed"} => DOMAIN tmp = {}
    /\ pc \in {"volume", "walk"} =>
          /\ DOMAIN tmp = {cur}
          /\ \A k \in DOMAIN tmp[cur] : tmp[cur][k].input = cur

\* C7's case: an exception left the extraction path while the walker was in
\* the temporary directory, and the directory is gone
C7_Witness ==
    /\ pc = "crashed"
    /\ exc # "none"
    /\ last.valid
    /\ DOMAIN tmp = {}

ImageExtensions == {<<46, 98, 109, 112>>, <<46, 112, 110, 103>>, <<46, 103, 105, 102>>,
                    <<46, 106, 112, 103>>}

\* the router did nothing but write the section's bytes to output_dir/label
OnlyVerbatim ==
    /\ ~last.tr.stream
    /\ ~last.tr.located
    /\ ~last.tr.split
    /\ last.tr.attempts = <<>>
    /\ dirs = {}
    /\ DOMAIN fs \subseteq {<<last.label>>}

\* C8 as stated (granting that the write itself succeeds): a section whose
\* label ends in .bmp, .png, .gif or .jpg, or whose data is below the
\* threshold, is written verbatim to output_dir/label and that path is
\* returned, with no decompression, no scan and nothing else created.
C8_ImageOrSmallVerbatim ==
    ( /\ Routed
      /\ last.wf = {}
      /\ \/ \E e \in ImageExtensions : EndsWith(last.label, e)
         \/ Len(LastData) < Threshold ) =>
        /\ last.ret = <<last.label>>
        /\ fs[<<last.label>>].data = LastData
        /\ OnlyVerbatim

\* C8 as amended: a section whose label ends in .bmp, or whose data is below
\* the threshold, is written verbatim to output_dir/label and that path is
\* returned when the write succeeds; when it fails no path is returned and
\* nothing is written; either way there is no decompression, no scan and
\* nothing else created.
C8_BmpOrSmallVerbatim ==
    ( /\ Routed
      /\ \/ EndsWith(last.label, <<46, 98, 109, 112>>)
         \/ Len(LastData) < Threshold ) =>
        /\ OnlyVerbatim
        /\ last.exc = "none"
        /\ IF "small" \in last.wf
           THEN last.ret = None /\ fs = <<>> /\ registry = <<>>
           ELSE /\ last.ret = <<last.label>>
                /\ fs[<<last.label>>].data = LastData
                /\ fs[<<last.label>>].writes = 1

\* C8's case: a .bmp section of at least the threshold that begins with the
\* gzip magic was written as it is
C8_Witness ==
    /\ Routed
    /\ EndsWith(last.label, <<46, 98, 109, 112>>)
    /\ Len(LastData) >= Threshold
    /\ GzipPrefixed(LastData)
    /\ last.ret = <<last.label>>
    /\ fs[<<last.label>>].data = LastData

\* the text of a UI section: its UTF-16LE code units up to the first NUL,
\* without the white space at either end
UiUnits(ui) == [k \in 1..(Len(ui.data) \div 2) |-> ui.data[2 * k - 1] + 256 * ui.data[2 * k]]

UiUpToNul(ui) ==
    LET u == UiUnits(ui)
        nuls == {k \in DOMAIN u : u[k] = 0}
    IN  IF nuls = {} THEN u
        ELSE SubSeq(u, 1, (CHOOSE k \in nuls : \A m \in nuls : k <= m) - 1)

UiText(ui) ==
    LET t == UiUpToNul(ui)
        solid == {k \in DOMAIN t : ~IsSpace(t[k])}
    IN  IF solid = {} THEN <<>>
        ELSE SubSeq(t, CHOOSE k \in solid : \A m \in solid : k <= m,
                       CHOOSE k \in solid : \A m \in solid : k >= m)

DirectoryLabel(dir) ==
    [k \in 1..(Len(dir) - 5) |-> IF dir[k + 5] \in 65..90 THEN dir[k + 5] + 32 ELSE dir[k + 5]]

C10_RegistryNamesWrittenFiles ==
    \A k \in DOMAIN registry : registry[k] \in DOMAIN fs

====
